---------------------------- MODULE Spec2Model ----------------------------
(***************************************************************************)
(* Model of src/src/driver/Laser_Driver.py: the bring-up sequence of the   *)
(* Daylight Solutions laser (class Laser_Driver), its shutdown routine and *)
(* the public stage methods.                                               *)
(*                                                                         *)
(* Python facts the model keeps:                                           *)
(*  - startup calls its stages as self.__connect_laser(), ...  Inside the  *)
(*    class body these names are mangled to _Laser_Driver__connect_laser,  *)
(*    ...; the class binds the stage bodies under the public names         *)
(*    connect_laser, ...  The lookup therefore raises AttributeError       *)
(*    unless the instance carries the private names.  attrs is the part of *)
(*    the instance dictionary that __init__ does not fill; BindStages is   *)
(*    the caller binding the private names to the stage methods.           *)
(*  - set_qcl_params reads self.qcl_temp_c and self.qcl_width_ns, which no *)
(*    method assigns: the read raises AttributeError until the caller has  *)
(*    assigned the attribute.                                              *)
(*  - sys.exc_info()[0] is the exception class; "raise e" raises a new     *)
(*    instance of that class, so the kind of the fault is kept.            *)
(*  - the SDK object is the ctypes library or a test double; a call into   *)
(*    it either returns or raises (OSError).                               *)
(*  - lines 260-263 (the body of set_pulsewidth) are outside the model.    *)
(*                                                                         *)
(* Time is in whole seconds; one poll iteration takes its sleep plus up to *)
(* MaxJitter seconds.                                                      *)
(*                                                                         *)
(* Spec is the bring-up: startup with its seven stages, the except clause  *)
(* and turn_off_laser.  SpecAcq is the acquisition session: the caller     *)
(* connects the lock-in amplifier and runs collection cycles               *)
(* (_collect_data) on one pair of lists.                                   *)
(***************************************************************************)
EXTENDS Integers, Sequences, FiniteSets, TLC

\* ---------------------------------------------------------------- bounds
MaxHandles == 2   \* handles the SDK hands out in one run
MaxCycles  == 3   \* collection cycles of one acquisition session
MaxJitter  == 1   \* extra seconds a poll iteration may take beyond its sleep

\* ------------------------------------------------- constants of __init__
qcl_set_params_timeout == 5
arm_laser_timeout      == 20
cool_tecs_timeout      == 60
turn_on_laser_timeout  == 30
laser_on_attempts      == 3
laser_on_wait          == 5
PollSleep              == 1    \* time.sleep(1) of the arm, params and cool loops

Unset == -1                    \* an attribute the instance does not have
None  == 0                     \* self.handle = None

\* temperatures are counted in units of 1/(10 * 2^19) degree, the unit in which
\* every float32 between 16 and 32 degrees is a multiple of 10
Deg(tenths) == tenths * 524288

\* pulse rates and widths are written as two 16-bit words: hi * 65536 + lo
U32(hi, lo) == << hi, lo >>

\* ctypes conversions: c_uint32(v).value, c_uint16(v).value, c_float(v).value
CUint32(v) == << v[1] % 65536, v[2] >>
CUint16(v) == v % 65536
CFloat(v)  == 10 * ((v + 5) \div 10)

\* a try block that calls set_qcl_params before arm_laser
StagesSwapped == << "Connect", "SetParameters", "Arm", "CoolTECs", "TurnOnLaser",
                    "ConnectDetector", "InitializeDetector" >>

\* the calls of the try block, in the order of lines 153-159
Stages == << "Connect", "Arm", "SetParameters", "CoolTECs", "TurnOnLaser",
             "ConnectDetector", "InitializeDetector" >>

\* the private names startup looks up, one per stage (lines 153-159)
PrivateName == [ Connect |-> "_Laser_Driver__connect_laser",
                 Arm |-> "_Laser_Driver__arm_laser",
                 SetParameters |-> "_Laser_Driver__set_qcl_params",
                 CoolTECs |-> "_Laser_Driver__cool_tecs",
                 TurnOnLaser |-> "_Laser_Driver__turn_on_laser",
                 ConnectDetector |-> "_Laser_Driver__connect_to_lockin",
                 InitializeDetector |-> "_Laser_Driver__initialize_lockin" ]

\* the first control point of each stage body
EntryPc == [ Connect |-> "connect", Arm |-> "arm", SetParameters |-> "params",
             CoolTECs |-> "cool", TurnOnLaser |-> "turn_on",
             ConnectDetector |-> "lockin_connect",
             InitializeDetector |-> "lockin_init" ]

StageIndex(s) == CHOOSE i \in 1..Len(Stages) : Stages[i] = s

\* the LaserConfiguration values a caller passes to startup
\* (current, pulsewid, pulserate); the last one does not fit c_uint32
Configs ==
    { [current |-> 1500, pulsewid |-> U32(0, 500), pulserate |-> U32(1, 34464)],
      [current |-> 1200, pulsewid |-> U32(0, 500), pulserate |-> U32(1, 34464)],
      [current |-> 1500, pulsewid |-> U32(0, 500),
       pulserate |-> U32(65537, 34464)] }

\* values the caller may assign to the attributes startup never sets
TempValues  == { Deg(170), Deg(171) }
WidthValues == { U32(0, 500) }

VARIABLES
    pc,                  \* control point of the driver ("idle": with the caller)
    caller,              \* the public method running or last run
    stage,               \* the stage whose body is running
    attrs,               \* names bound on the instance besides those of __init__
    handle,              \* self.handle
    laser_on,            \* self.laser_on
    qcl_pulse_rate_hz, qcl_pulse_width_ns, qcl_current_ma, qcl_current_ma_ma,
    qcl_temp_c, qcl_width_ns,
    flag,                \* is_armed / is_temp_set / is_emitting of the running stage
    elapsed,             \* curr_t - old_t of the running poll loop
    attempts,            \* attempts of turn_on_laser
    exc,                 \* the exception caught by startup's except clause
    result,              \* how the last call ended: "none", "ok" or the fault kind
    opened,              \* handles handed out by the SDK so far
    released,            \* per handle: SidekickSDK_Disconnect calls (2 = two or more)
    written,             \* parameters last written to the controller
    daq,                 \* self.daq is a connected data server (not None)
    \* history of the running call
    entered,             \* stages entered by startup, in order
    shutdowns,           \* turn_off_laser invocations (2 = two or more)
    stageExc,            \* the fault the failing stage raised
    armCmds,             \* SetLaserArmDisarm(True) commands issued
    onCmds,              \* SetLaserOnOff(True) commands issued
    reuse,               \* kinds of SDK commands issued on a released handle
    confirmed,           \* the last status read of the running stage was true
    answer,              \* the SDK answer that ended connect_laser
    fails,               \* attempts of turn_on_laser ended by their timeout
    timedOut,            \* the running call saw a poll loop exceed its timeout
    reported,            \* what the hardware has reported true in this call
    ops,                 \* kinds of operations this call has issued
    readAt,              \* curr_t - old_t at the last status read of the stage
    armPolls,            \* iterations of the arm poll loop so far
    devtype,             \* the device type initialize_lockin was answered
    daqLog,              \* the data-server calls of initialize_lockin that returned
    \* the acquisition session
    data_list, time_list,  \* the caller's buffer, the arguments of _collect_data
    subscribed,          \* the data server has a subscription of this session
    warnings,            \* 'Sample loss detected' warnings written (2 = two or more)
    cycles,              \* calls of _collect_data so far
    shape,               \* the poll response of the last cycle (0: none was given)
    raisedAt             \* the data-server call that raised in the last cycle

vars == << pc, caller, stage, attrs, handle, laser_on, qcl_pulse_rate_hz,
           qcl_pulse_width_ns, qcl_current_ma, qcl_current_ma_ma, qcl_temp_c,
           qcl_width_ns, flag, elapsed, attempts, exc, result, opened, released,
           written, daq, entered, shutdowns, stageExc, armCmds, onCmds, reuse,
           confirmed, answer, fails, timedOut, reported, ops, readAt,
           armPolls, devtype, daqLog, data_list, time_list, subscribed,
           warnings, cycles, shape, raisedAt >>

config == << qcl_pulse_rate_hz, qcl_pulse_width_ns, qcl_current_ma,
             qcl_current_ma_ma, qcl_temp_c, qcl_width_ns >>
locals == << flag, elapsed, attempts >>
\* the record of confirmations, operations and poll timing of the running call
seen   == << reported, ops, readAt, armPolls >>
\* the record of the detector configuration of the running call
lockin == << devtype, daqLog >>
\* the acquisition session
acq    == << data_list, time_list, subscribed, warnings, cycles, shape,
             raisedAt >>

Handles == 1..MaxHandles
\* the controller's parameter set before the driver has written one
NoParams == [rate |-> U32(0, 0), width |-> U32(0, 0), current |-> 0, temp |-> 0]

Sat(n) == IF n >= 2 THEN 2 ELSE n
Range(seq) == { seq[i] : i \in 1..Len(seq) }

\* the state after Laser_Driver.__init__
Init ==
    /\ pc = "idle" /\ caller = "none" /\ stage = "none"
    /\ attrs = {}
    /\ handle = None
    /\ laser_on = FALSE
    /\ qcl_pulse_rate_hz = U32(1, 34464) /\ qcl_pulse_width_ns = U32(0, 500)
    /\ qcl_current_ma = 1500 /\ qcl_current_ma_ma = Unset
    /\ qcl_temp_c = 0 /\ qcl_width_ns = U32(0, 0)
    /\ flag = FALSE /\ elapsed = 0 /\ attempts = 0
    /\ exc = "none" /\ result = "none"
    /\ opened = 0
    /\ released = [h \in Handles |-> 0]
    /\ written = NoParams
    /\ daq = FALSE
    /\ entered = << >> /\ shutdowns = 0 /\ stageExc = "none"
    /\ armCmds = 0 /\ onCmds = 0 /\ reuse = {} /\ confirmed = FALSE
    /\ answer = "none" /\ fails = 0
    /\ timedOut = FALSE
    /\ reported = {} /\ ops = {} /\ readAt = 0 /\ armPolls = 0
    /\ devtype = "none" /\ daqLog = << >>
    /\ data_list = << >> /\ time_list = << >> /\ subscribed = FALSE
    /\ warnings = 0 /\ cycles = 0 /\ shape = 0 /\ raisedAt = "none"


\* ------------------------------------------------------- control transfer
\* a new call starts a new history
NewHistory ==
           /\ shutdowns' = 0 /\ armCmds' = 0 /\ onCmds' = 0
           /\ reuse' = {} /\ confirmed' = FALSE /\ timedOut' = FALSE
           /\ stageExc' = "none"
           /\ answer' = "none" /\ fails' = 0
           /\ reported' = {} /\ ops' = {} /\ readAt' = 0 /\ armPolls' = 0
           /\ devtype' = "none" /\ daqLog' = << >>

NewCall == NewHistory /\ result' = "none"

\* the locals of a stage body are gone when the body is left
NoLocals == flag' = FALSE /\ elapsed' = 0 /\ attempts' = 0

\* startup looks up the private name of stage s and calls it (lines 153-159)
Enter(s) ==
    IF PrivateName[s] \in attrs
    THEN /\ pc' = EntryPc[s] /\ stage' = s /\ entered' = Append(entered, s)
         /\ exc' = "none"
    ELSE /\ pc' = "except" /\ exc' = "AttributeError"
         /\ UNCHANGED << stage, entered >>

\* the running stage body returns normally: the next stage of the try block,
\* or the end of startup
StageReturn ==
    /\ NoLocals
    /\ IF StageIndex(stage) < Len(Stages)
       THEN /\ Enter(Stages[StageIndex(stage) + 1])
            /\ UNCHANGED << stageExc, result >>
       ELSE /\ pc' = "idle" /\ result' = "ok"
            /\ UNCHANGED << stage, entered, exc, stageExc >>

\* the running stage body raises a fault of kind k, caught at line 160
StageRaise(k) ==
    /\ NoLocals
    /\ pc' = "except" /\ exc' = k /\ stageExc' = k
    /\ UNCHANGED << stage, entered, result >>

\* the stage body goes on at p with locals f (status flag), e (elapsed) and
\* a (attempts)
Goto(p, f, e, a) ==
    /\ pc' = p /\ flag' = f /\ elapsed' = e /\ attempts' = a
    /\ UNCHANGED << stage, entered, exc, stageExc, result >>

\* an SDK command on self.handle goes to a handle that was already released
Stale == handle # None /\ released[handle] > 0
Used(kinds) == IF Stale THEN reuse \cup kinds ELSE reuse

\* the hardware has reported the condition what when the status read b is true
Reported(what, b) == IF b THEN reported \cup { what } ELSE reported

\* --------------------------------------------------------------- the caller
\* the caller binds the private stage names on the instance
BindStages ==
    /\ pc = "idle" /\ PrivateName[Stages[1]] \notin attrs
    /\ attrs' = attrs \cup { PrivateName[Stages[i]] : i \in 1..Len(Stages) }
    /\ UNCHANGED << pc, caller, stage, handle, laser_on, config, locals, exc,
                    result, opened, released, written, daq, entered,
                    shutdowns, answer, fails, stageExc, armCmds, onCmds,
                    reuse, confirmed, timedOut, seen, lockin, acq >>

\* the caller assigns the attributes set_qcl_params reads (lines 215, 217)
SetAttr ==
    /\ pc = "idle"
    /\ \/ /\ "qcl_temp_c" \notin attrs /\ qcl_temp_c' \in TempValues
          /\ attrs' = attrs \cup { "qcl_temp_c" }
          /\ UNCHANGED qcl_width_ns
       \/ /\ "qcl_width_ns" \notin attrs /\ qcl_width_ns' \in WidthValues
          /\ attrs' = attrs \cup { "qcl_width_ns" }
          /\ UNCHANGED qcl_temp_c
    /\ UNCHANGED << pc, caller, stage, handle, laser_on, qcl_pulse_rate_hz,
                    qcl_pulse_width_ns, qcl_current_ma, qcl_current_ma_ma,
                    locals, exc, result, opened, released, written, daq,
                    entered, shutdowns, answer, fails, stageExc, armCmds,
                    onCmds, reuse, confirmed, timedOut, seen, lockin, acq >>

\* startup(wave, waveunit, current, pulsewid, pulserate), lines 144-153
startup ==
    /\ pc = "idle"
    /\ \E c \in Configs :
          /\ qcl_current_ma_ma' = c.current
          /\ qcl_pulse_width_ns' = c.pulsewid
          /\ qcl_pulse_rate_hz' = c.pulserate
    /\ caller' = "startup"
    /\ NewCall
    /\ IF PrivateName[Stages[1]] \in attrs
       THEN /\ pc' = EntryPc[Stages[1]] /\ stage' = Stages[1]
            /\ entered' = << Stages[1] >> /\ exc' = "none"
       ELSE /\ pc' = "except" /\ stage' = "none"
            /\ entered' = << >> /\ exc' = "AttributeError"
    /\ UNCHANGED << attrs, handle, laser_on, qcl_current_ma, qcl_temp_c,
                    qcl_width_ns, locals, opened, released, written, daq,
                    acq >>

\* ------------------------------------------------------------ turn_off_laser
\* The five SDK calls of lines 411-416, in order.  k calls return; when k < 5
\* the next one raises and turn_off_laser ends there.
OffCalls == << "emission", "emission", "arm", "arm", "disconnect" >>
Attempted(k) == { OffCalls[i] : i \in 1..(IF k < 5 THEN k + 1 ELSE 5) }

\* n and u: the invocations and the stale commands of the running call so far
turn_off_laser(k, n, u) ==
    /\ shutdowns' = Sat(n + 1)
    /\ reuse' = IF Stale THEN u \cup Attempted(k) ELSE u
    /\ released' = IF k = 5 /\ handle # None
                   THEN [released EXCEPT ![handle] = Sat(@ + 1)]
                   ELSE released
    /\ UNCHANGED << handle, laser_on >>

\* what leaves the except clause (lines 161-163) when the stage fault was e and
\* turn_off_laser let k of its calls return
Reraised(e, k) == IF k < 5 THEN "OSError" ELSE e

\* an except clause that re-raises without calling turn_off_laser
ExceptSkipsShutdown ==
    /\ pc = "except"
    /\ pc' = "idle" /\ result' = exc
    /\ UNCHANGED << caller, stage, attrs, handle, laser_on, config, locals,
                    exc, opened, released, written, daq, entered, shutdowns,
                    stageExc, armCmds, onCmds, reuse, confirmed, answer,
                    fails, timedOut, seen, lockin, acq >>

\* the except clause of startup, lines 160-163
Except ==
    /\ pc = "except"
    /\ \E k \in 0..5 :
          /\ turn_off_laser(k, shutdowns, reuse)
          /\ result' = Reraised(exc, k)
    /\ pc' = "idle"
    /\ UNCHANGED << caller, stage, attrs, config, locals, exc, opened,
                    written, daq, entered, stageExc, armCmds, onCmds,
                    confirmed, answer, fails, timedOut, seen, lockin, acq >>

\* turn_off_laser called by the caller
CallTurnOff ==
    /\ pc = "idle"
    /\ caller' = "turn_off_laser" /\ stage' = "none"
    /\ entered' = << >> /\ exc' = "none" /\ stageExc' = "none"
    /\ armCmds' = 0 /\ onCmds' = 0 /\ confirmed' = FALSE /\ timedOut' = FALSE
    /\ answer' = "none" /\ fails' = 0
    /\ reported' = {} /\ ops' = {} /\ readAt' = 0 /\ armPolls' = 0
    /\ devtype' = "none" /\ daqLog' = << >>
    /\ \E k \in 0..5 :
          /\ turn_off_laser(k, 0, {})
          /\ result' = IF k < 5 THEN "OSError" ELSE "ok"
    /\ UNCHANGED << pc, attrs, config, locals, opened, written, daq, acq >>

\* ------------------------------------------------------------- connect_laser
\* _call_sdk_bool_ptr (lines 502-508) on handle h: a false status disconnects
VerifyFailed(h) == [released EXCEPT ![h] = Sat(@ + 1)]

ConnectOutcomes == { "search", "count", "connect", "qcl", "interlock",
                     "keyswitch", "ok" }

\* a key-switch check that writes its message and does not raise
CheckRaisesNoKey(o) == o \notin { "ok", "keyswitch" }

\* _call_sdk_bool (lines 488-492) and _call_sdk_bool_ptr (lines 503-508) raise
\* SDK_Exception on the answer o unless it reports success
CheckRaises(o) == o # "ok"

\* lines 170-186; o is the first SDK answer that is a failure, or "ok"
connect_laser ==
    /\ pc = "connect"
    /\ \E o \in ConnectOutcomes :
          /\ answer' = o
          /\ IF o \in { "search", "count", "connect" }
             THEN /\ UNCHANGED << handle, opened, released >>
             ELSE /\ opened < MaxHandles
                  /\ opened' = opened + 1
                  /\ handle' = opened + 1
                  /\ released' = IF o = "ok" THEN released
                                 ELSE VerifyFailed(opened + 1)
          /\ IF CheckRaises(o) THEN StageRaise("SDK_Exception") ELSE StageReturn
    /\ UNCHANGED << caller, attrs, laser_on, config, written, daq, shutdowns,
                    fails, armCmds, onCmds, reuse, confirmed, timedOut,
                    seen, lockin, acq >>

\* ----------------------------------------------------------------- arm_laser
\* a timeout test that already fires when the elapsed time equals the timeout
ExpiredInclusive(t, timeout) == t >= timeout

\* the timeout test of a poll loop (lines 204, 301, 333)
Expired(t, timeout) == t > timeout

\* a poll loop that is left whatever the status read says
PollAgainNever(b) == FALSE

\* the test of a poll loop (lines 199, 296, 329) on the status b read last
PollAgain(b) == ~b

\* lines 193-198: command arm, first status read
arm_laser ==
    /\ pc = "arm"
    /\ armCmds' = Sat(armCmds + 1)
    /\ reuse' = Used({ "arm", "status" })
    /\ readAt' = 0 /\ armPolls' = 0
    /\ \E b \in BOOLEAN :
          /\ confirmed' = b /\ reported' = Reported("armed", b)
          /\ IF PollAgain(b) THEN Goto("arm_poll", FALSE, 0, 0)
                            ELSE StageReturn
    /\ UNCHANGED << caller, attrs, handle, laser_on, config, opened, released,
                    written, daq, shutdowns, answer, fails, onCmds,
                    timedOut, ops, lockin, acq >>

\* lines 199-205: one iteration of the arm poll loop
arm_poll ==
    /\ pc = "arm_poll"
    /\ reuse' = Used({ "status" })
    /\ \E b \in BOOLEAN, d \in 0..MaxJitter :
          LET t == elapsed + PollSleep + d IN
          /\ confirmed' = b /\ reported' = Reported("armed", b)
          /\ readAt' = t /\ armPolls' = armPolls + 1
          /\ IF Expired(t, arm_laser_timeout)
             THEN StageRaise("Laser_Exception") /\ timedOut' = TRUE
             ELSE /\ UNCHANGED timedOut
                  /\ IF PollAgain(b)
                     THEN Goto("arm_poll", FALSE, t, 0) ELSE StageReturn
    /\ UNCHANGED << caller, attrs, handle, laser_on, config, opened, released,
                    written, daq, shutdowns, answer, fails, armCmds, onCmds,
                    ops, lockin, acq >>

\* ----------------------------------------------------------------- cool_tecs
\* lines 292-295; the settle sleep of line 303 changes no state
cool_tecs ==
    /\ pc = "cool"
    /\ reuse' = Used({ "status" })
    /\ readAt' = 0
    /\ \E b \in BOOLEAN :
          /\ confirmed' = b /\ reported' = Reported("temp", b)
          /\ IF PollAgain(b) THEN Goto("cool_poll", FALSE, 0, 0)
                            ELSE StageReturn
    /\ UNCHANGED << caller, attrs, handle, laser_on, config, opened, released,
                    written, daq, shutdowns, answer, fails, armCmds, onCmds,
                    timedOut, ops, armPolls, lockin, acq >>

\* lines 296-302: one iteration of the cooling poll loop
cool_poll ==
    /\ pc = "cool_poll"
    /\ reuse' = Used({ "status" })
    /\ \E b \in BOOLEAN, d \in 0..MaxJitter :
          LET t == elapsed + PollSleep + d IN
          /\ confirmed' = b /\ reported' = Reported("temp", b)
          /\ readAt' = t
          /\ IF Expired(t, cool_tecs_timeout)
             THEN StageRaise("Laser_Exception") /\ timedOut' = TRUE
             ELSE /\ UNCHANGED timedOut
                  /\ IF PollAgain(b)
                     THEN Goto("cool_poll", FALSE, t, 0) ELSE StageReturn
    /\ UNCHANGED << caller, attrs, handle, laser_on, config, opened, released,
                    written, daq, shutdowns, answer, fails, armCmds, onCmds,
                    ops, armPolls, lockin, acq >>

\* ------------------------------------------------------------ set_qcl_params
\* lines 214-217: the values put into qcl_params, through their ctypes
Commanded == [ rate    |-> CUint32(qcl_pulse_rate_hz),
               temp    |-> CFloat(qcl_temp_c),
               current |-> CUint16(qcl_current_ma),
               width   |-> CUint32(qcl_width_ns) ]

\* the loop condition of lines 220-223 on the parameter set q
Differs(q) == \/ q.rate # qcl_pulse_rate_hz
              \/ q.temp # qcl_temp_c
              \/ q.current # qcl_current_ma
              \/ q.width # qcl_width_ns

\* what _read_qcl_params (lines 424-434) can bring back from the controller:
\* the set last written, or one whose temperature has not arrived yet
ReadBack == { written, [written EXCEPT !.temp = Deg(250)] }

\* lines 213-220: read, overwrite the four fields, write, first loop test
set_qcl_params ==
    /\ pc = "params"
    /\ reuse' = Used({ "params" })
    /\ confirmed' = FALSE
    /\ readAt' = 0 /\ armPolls' = 0
    /\ IF "qcl_temp_c" \notin attrs \/ "qcl_width_ns" \notin attrs
       THEN /\ StageRaise("AttributeError")
            /\ UNCHANGED << written, ops >>
       ELSE /\ written' = Commanded
            /\ ops' = ops \cup { "paramWrite" }
            /\ IF Differs(Commanded)
               THEN Goto("params_poll", FALSE, 0, 0)
               ELSE StageReturn
    /\ UNCHANGED << caller, attrs, handle, laser_on, config, opened, released,
                    daq, shutdowns, answer, fails, armCmds, onCmds,
                    timedOut, reported, lockin, acq >>

\* elapsed of the convergence loop stops counting two seconds past the timeout
CapParams(t) == IF t > qcl_set_params_timeout + 2
                THEN qcl_set_params_timeout + 2 ELSE t

\* lines 224-228 and the loop test: one iteration of the convergence loop.
\* Line 227 builds a QCL_Exception and drops it.
params_poll ==
    /\ pc = "params_poll"
    /\ reuse' = Used({ "params" })
    /\ \E q \in ReadBack, d \in 0..MaxJitter :
          /\ timedOut' = (timedOut \/ Expired(elapsed + d, qcl_set_params_timeout))
          /\ confirmed' = ~Differs(q)
          /\ IF Differs(q)
             THEN Goto("params_poll", FALSE, CapParams(elapsed + d + PollSleep), 0)
             ELSE StageReturn
    /\ UNCHANGED << caller, attrs, handle, laser_on, config, opened, released,
                    written, daq, shutdowns, answer, fails, armCmds, onCmds,
                    seen, lockin, acq >>

\* ------------------------------------------------------------- turn_on_laser
\* lines 311-317: the locals
turn_on_laser ==
    /\ pc = "turn_on"
    /\ confirmed' = FALSE /\ readAt' = 0
    /\ Goto("on_loop", FALSE, 0, 0)
    /\ UNCHANGED << caller, attrs, handle, laser_on, config, opened, released,
                    written, daq, shutdowns, answer, fails, armCmds, onCmds,
                    reuse, timedOut, reported, ops, armPolls, lockin, acq >>

\* an attempt loop without the "continue" of line 344
LaserOnAfterNoContinue(trial_fail, b) == trial_fail \/ laser_on \/ b

\* self.laser_on after the emission poll loop of an attempt was left or went
\* round once more (lines 342-346): trial_fail skips line 346; b is the status
\* read last
LaserOnAfter(trial_fail, b) == IF trial_fail THEN laser_on ELSE (laser_on \/ b)

\* an attempt loop that counts one attempt too many
MoreAttemptsOffByOne == ~laser_on /\ attempts <= laser_on_attempts

\* the attempt loop goes on (line 319)
MoreAttempts == ~laser_on /\ attempts < laser_on_attempts

\* line 319, then lines 320-328 of a new attempt or lines 348-351 after the loop
on_loop ==
    /\ pc = "on_loop"
    /\ IF MoreAttempts
       THEN /\ onCmds' = onCmds + 1
            /\ ops' = ops \cup { "emissionOn" }
            /\ reuse' = Used({ "emission", "status" })
            /\ readAt' = 0
            /\ \E b \in BOOLEAN :
                  /\ confirmed' = b /\ reported' = Reported("emission", b)
                  /\ laser_on' = LaserOnAfter(FALSE, b)
                  /\ Goto(IF PollAgain(b) THEN "on_poll" ELSE "on_loop",
                          b, 0, attempts + 1)
       ELSE /\ IF ~flag THEN StageRaise("Laser_Exception") ELSE StageReturn
            /\ UNCHANGED << laser_on, onCmds, reuse, confirmed, reported,
                            ops, readAt >>
    /\ UNCHANGED << caller, attrs, handle, config, opened, released, written,
                    daq, shutdowns, answer, fails, armCmds, timedOut,
                    armPolls, lockin, acq >>

\* lines 329-346: one iteration of the emission poll loop of an attempt
on_poll ==
    /\ pc = "on_poll"
    /\ reuse' = Used({ "status" })
    /\ \E b \in BOOLEAN, d \in 0..MaxJitter :
          LET t == elapsed + laser_on_wait + d IN
          /\ confirmed' = b /\ reported' = Reported("emission", b)
          /\ readAt' = t
          /\ laser_on' = LaserOnAfter(Expired(t, turn_on_laser_timeout), b)
          /\ IF Expired(t, turn_on_laser_timeout)
             THEN /\ timedOut' = TRUE /\ fails' = fails + 1
                  /\ Goto("on_loop", b, t, attempts)
             ELSE /\ UNCHANGED << timedOut, fails >>
                  /\ Goto(IF PollAgain(b) THEN "on_poll" ELSE "on_loop",
                          b, t, attempts)
    /\ UNCHANGED << caller, attrs, handle, config, opened, released, written,
                    daq, shutdowns, answer, armCmds, onCmds, ops, armPolls,
                    lockin, acq >>

\* ------------------------------------------------------ the lock-in amplifier
\* lines 355-357: ziDAQServer and autoDetect return, or one of them raises
connect_to_lockin ==
    /\ pc = "lockin_connect"
    /\ ops' = ops \cup { "detector" } /\ readAt' = 0
    /\ \/ /\ daq' = TRUE /\ StageReturn
       \/ /\ UNCHANGED daq /\ StageRaise("RuntimeError")
    /\ UNCHANGED << caller, attrs, handle, laser_on, config, opened, released,
                    written, shutdowns, answer, fails, armCmds, onCmds, reuse,
                    confirmed, timedOut, reported, armPolls, lockin, acq >>

\* the device types the data server may answer (line 363); the last one is of
\* none of the families the driver knows
DevTypes == { "UHFLI", "HF2LI", "MFLI", "SHFQA" }
\* the family names a device type contains ('UHF' in devtype, lines 370-388)
FamiliesIn == [ UHFLI |-> { "UHF" }, HF2LI |-> { "HF2" }, MFLI |-> { "MF" },
                SHFQA |-> {} ]
\* whether the options answer contains 'MF' (line 390)
Options == BOOLEAN

\* one call of the data server: the method, the node below the device and the
\* value written (as the source writes it)
Call(op, node, val) == [ op |-> op, node |-> node, val |-> val ]

\* lines 363-364
Queries == << Call("getByte", "features/devtype", ""),
              Call("getByte", "features/options", "") >>
\* lines 366-368
Quiesce == << Call("setDouble", "demods/*/rate", "0.0"),
              Call("setInt", "demods/*/trigger", "0"),
              Call("setInt", "sigouts/*/enables/*", "0") >>
\* lines 370-376
FamilySettings(dt) ==
    IF "UHF" \in FamiliesIn[dt]
    THEN << Call("setInt", "demods/*/enable", "0"),
            Call("setInt", "scopes/*/enable", "0") >>
    ELSE IF "HF2" \in FamiliesIn[dt]
    THEN << Call("setInt", "scopes/*/trigchannel", "-1") >>
    ELSE IF "MF" \in FamiliesIn[dt]
    THEN << Call("setInt", "scopes/*/enable", "0") >>
    ELSE << >>
\* lines 378-382, input channel lockin_in_c = '0'
InputSettings == << Call("setInt", "sigins/0/imp50", "0"),
                    Call("setInt", "sigins/0/ac", "1"),
                    Call("setInt", "sigins/0/diff", "0"),
                    Call("setInt", "sigins/0/float", "0"),
                    Call("setDouble", "sigins/0/range", "2.0") >>
\* lines 384-394, demodulator lockin_demod_c = '0', oscillator lockin_osc_c = '0'
DemodSettings(dt, mf) ==
    << Call("setDouble", "demods/*/phaseshift", "0"),
       Call("setInt", "demods/*/order", "4"),
       Call("setDouble", "demods/0/rate", "demod_rate"),
       Call("setInt", "demods/0/harmonic", "1") >>
    \o (IF "UHF" \in FamiliesIn[dt]
        THEN << Call("setInt", "demods/0/enable", "1") >> ELSE << >>)
    \o (IF mf THEN << Call("setInt", "demods/*/oscselect", "0.0"),
                      Call("setInt", "demods/*/adcselect", "0.0") >>
              ELSE << >>)
    \o << Call("setDouble", "demods/*/timeconstant", "lockin_time_constant"),
          Call("setDouble", "oscs/0/freq", "lockin_osc_freq") >>
\* lines 396-401
TriggerSettings == << Call("setInt", "extrefs/0/enable", "1"),
                      Call("setDouble", "triggers/in/0/level", "0.500"),
                      Call("setInt", "demods/0/adcselect", "1"),
                      Call("setInt", "demods/0/adcselect", "0"),
                      Call("setInt", "demods/1/adcselect", "2"),
                      Call("setInt", "demods/1/adcselect", "8") >>
\* lines 403-405
Closing == << Call("unsubscribe", "*", ""), Call("sync", "", ""),
              Call("sleep", "", "10 * lockin_time_constant") >>

\* a configuration that writes the family settings before the quiesce barrier
InitCallsFamilyFirst(dt, mf) ==
    Queries \o FamilySettings(dt) \o Quiesce \o InputSettings
    \o DemodSettings(dt, mf) \o TriggerSettings \o Closing

\* the calls of initialize_lockin in program order, for the device type dt
\* and the options answer mf
InitCalls(dt, mf) ==
    Queries \o Quiesce \o FamilySettings(dt) \o InputSettings
    \o DemodSettings(dt, mf) \o TriggerSettings \o Closing

\* lines 361-405: n calls return; when n is not the whole list the next call
\* raises
initialize_lockin ==
    /\ pc = "lockin_init"
    /\ ops' = ops \cup { "detector" }
    /\ \E dt \in DevTypes, mf \in Options :
       \E n \in 0..Len(InitCalls(dt, mf)) :
          /\ devtype' = IF n = 0 THEN "none" ELSE dt
          /\ daqLog' = SubSeq(InitCalls(dt, mf), 1, n)
          /\ IF n = Len(InitCalls(dt, mf))
             THEN StageReturn ELSE StageRaise("RuntimeError")
    /\ UNCHANGED << caller, attrs, handle, laser_on, config, opened, released,
                    written, daq, shutdowns, answer, fails, armCmds, onCmds,
                    reuse, confirmed, timedOut, reported, readAt, armPolls,
                    acq >>

\* ------------------------------------------------------------------ SDK fault
SdkPcs == { "connect", "arm", "arm_poll", "params", "params_poll", "cool",
            "cool_poll", "on_loop", "on_poll" }

\* the next call into the SDK raises instead of returning
SdkRaise ==
    /\ pc \in SdkPcs
    /\ pc = "on_loop" => MoreAttempts
    /\ StageRaise("OSError")
    /\ UNCHANGED << caller, attrs, handle, laser_on, config, opened, released,
                    written, daq, shutdowns, answer, fails, armCmds, onCmds,
                    reuse, confirmed, timedOut, seen, lockin, acq >>

Next ==
    \/ BindStages \/ SetAttr \/ startup \/ CallTurnOff
    \/ Except
    \/ connect_laser \/ arm_laser \/ arm_poll
    \/ set_qcl_params \/ params_poll
    \/ cool_tecs \/ cool_poll
    \/ turn_on_laser \/ on_loop \/ on_poll
    \/ connect_to_lockin \/ initialize_lockin
    \/ SdkRaise

Spec == Init /\ [][Next]_vars

\* ------------------------------------------------------ the acquisition session
\* self.device as autoDetect returned it, and lockin_demod_c (line 103)
Device == "dev1"
lockin_demod_c == "0"

EmptyDict == [k \in {} |-> 0]

\* demodulator samples: x, y and the timestamps in ticks.  Every x, y pair
\* has a whole magnitude and every timestamp is a multiple of the clock bases.
SampleA == [x |-> << 3, 0 >>, y |-> << 4, 0 >>, timestamp |-> << 300, 600 >>]
SampleB == [x |-> << 5 >>, y |-> << 12 >>, timestamp |-> << 900 >>]
ClockBases == { 50, 60 }

\* a poll response that carries the sample s of channel c with data-loss flag dl
WithSample(c, s, dl) ==
    Device :> [demods |-> (c :> [sample |->
        [x |-> s.x, y |-> s.y, timestamp |-> s.timestamp,
         time |-> [dataloss |-> dl]]])]

\* what daq.poll (line 459) may return: nothing, the device without 'demods',
\* 'demods' without a channel, only another channel, the channel without
\* 'sample', and complete samples without and with data loss
PollResponses ==
    << EmptyDict,
       Device :> EmptyDict,
       Device :> [demods |-> EmptyDict],
       WithSample("1", SampleA, FALSE),
       Device :> [demods |-> (lockin_demod_c :> EmptyDict)],
       WithSample(lockin_demod_c, SampleA, FALSE),
       WithSample(lockin_demod_c, SampleA, TRUE),
       WithSample(lockin_demod_c, SampleB, FALSE),
       WithSample(lockin_demod_c, SampleB, TRUE) >>

\* np.hypot(x, y) of one sample (line 467)
Hypot(a, b) == CHOOSE r \in 0..(a + b) :
                  r * r <= a * a + b * b /\ (r + 1) * (r + 1) > a * a + b * b
\* lines 465-467 and 469 on the sample node n with clock base cb
Magnitudes(n) == [i \in 1..Len(n.x) |-> Hypot(n.x[i], n.y[i])]
TimeAxis(n, cb) == [i \in 1..Len(n.timestamp) |-> n.timestamp[i] \div cb]

\* a sample branch in which data loss is raised as a fault
HandleSampleLossFault(n, cb) ==
    [ fault |-> IF n.time.dataloss THEN "RuntimeError" ELSE "none",
      bound |-> TRUE, data |-> Magnitudes(n), time_axis |-> TimeAxis(n, cb),
      warn |-> n.time.dataloss ]

\* lines 464-471: the sample branch.  fault: the exception raised; bound: data
\* and time_axis are assigned; warn: the warning is written
HandleSample(n, cb) ==
    [ fault |-> "none", bound |-> TRUE, data |-> Magnitudes(n),
      time_axis |-> TimeAxis(n, cb), warn |-> n.time.dataloss ]

\* data and time_axis stay unassigned
Unbound == [ fault |-> "none", bound |-> FALSE, data |-> << >>,
             time_axis |-> << >>, warn |-> FALSE ]

\* lines 461-474 on the poll response r
Handle(r, cb) ==
    IF Device \in DOMAIN r /\ "demods" \in DOMAIN r[Device]
    THEN IF Cardinality(DOMAIN r[Device].demods) >= 0
         THEN IF lockin_demod_c \notin DOMAIN r[Device].demods
              THEN [Unbound EXCEPT !.fault = "KeyError"]
              ELSE IF "sample" \in DOMAIN r[Device].demods[lockin_demod_c]
                   THEN HandleSample(r[Device].demods[lockin_demod_c].sample, cb)
                   ELSE Unbound
         ELSE Unbound
    ELSE [ fault |-> "none", bound |-> TRUE, data |-> << >>,
           time_axis |-> << >>, warn |-> FALSE ]

\* whether handling r reaches the clock-base query of line 468
AsksClock(r) ==
    /\ Device \in DOMAIN r /\ "demods" \in DOMAIN r[Device]
    /\ lockin_demod_c \in DOMAIN r[Device].demods
    /\ "sample" \in DOMAIN r[Device].demods[lockin_demod_c]

\* the data-server calls of _collect_data, in order
CollectCalls == << "sync", "subscribe", "poll", "getInt", "unsubscribe" >>

\* a call of the caller starts a new history of the bring-up
NoStartup ==
    /\ stage' = "none" /\ entered' = << >> /\ exc' = "none"
    /\ NewHistory
    /\ UNCHANGED << pc, attrs, handle, laser_on, config, locals, opened,
                    released, written >>

\* connect_to_lockin called by the caller (lines 355-357)
CallConnectToLockin ==
    /\ pc = "idle"
    /\ caller' = "connect_to_lockin"
    /\ NoStartup
    /\ \/ daq' = TRUE /\ result' = "ok"
       \/ UNCHANGED daq /\ result' = "RuntimeError"
    /\ UNCHANGED acq

\* _collect_data(data_list, time_list), lines 457-477; at is the call of the
\* data server that raises ("none": every call returns), i the poll response
collect_data ==
    /\ pc = "idle" /\ cycles < MaxCycles
    /\ caller' = "_collect_data"
    /\ NoStartup
    /\ cycles' = cycles + 1
    /\ UNCHANGED daq
    /\ IF ~daq
       THEN /\ result' = "AttributeError" /\ shape' = 0 /\ raisedAt' = "none"
            /\ UNCHANGED << data_list, time_list, subscribed, warnings >>
       ELSE \E at \in Range(CollectCalls) \cup { "none" },
               i \in 1..Len(PollResponses), cb \in ClockBases :
            LET r == PollResponses[i]
                h == Handle(r, cb)
            IN
            IF at \in { "sync", "subscribe", "poll" }
            THEN /\ result' = "RuntimeError" /\ shape' = 0 /\ raisedAt' = at
                 /\ subscribed' = (subscribed \/ at = "poll")
                 /\ UNCHANGED << data_list, time_list, warnings >>
            ELSE /\ shape' = i
                 /\ IF at = "getInt" /\ AsksClock(r)
                    THEN /\ result' = "RuntimeError" /\ raisedAt' = at
                         /\ subscribed' = TRUE
                         /\ UNCHANGED << data_list, time_list, warnings >>
                    ELSE IF h.fault # "none"
                    THEN /\ result' = h.fault /\ raisedAt' = "none"
                         /\ subscribed' = TRUE
                         /\ warnings' = IF h.warn THEN Sat(warnings + 1)
                                        ELSE warnings
                         /\ UNCHANGED << data_list, time_list >>
                    ELSE /\ warnings' = IF h.warn THEN Sat(warnings + 1)
                                        ELSE warnings
                         /\ IF at = "unsubscribe"
                            THEN /\ result' = "RuntimeError" /\ raisedAt' = at
                                 /\ subscribed' = TRUE
                                 /\ UNCHANGED << data_list, time_list >>
                            ELSE /\ raisedAt' = "none"
                                 /\ subscribed' = FALSE
                                 /\ IF h.bound
                                    THEN /\ data_list' = Append(data_list, h.data)
                                         /\ time_list' =
                                               Append(time_list, h.time_axis)
                                         /\ result' = "ok"
                                    ELSE /\ result' = "UnboundLocalError"
                                         /\ UNCHANGED << data_list, time_list >>

NextAcq == CallConnectToLockin \/ collect_data

SpecAcq == Init /\ [][NextAcq]_vars

\* ==================================================================== claims
InStartup == caller = "startup"
Returned  == InStartup /\ pc = "idle"
BodyPcs   == { "connect", "arm", "arm_poll", "params", "params_poll", "cool",
               "cool_poll", "turn_on", "on_loop", "on_poll", "lockin_connect",
               "lockin_init" }

\* the order the specification gives the seven stages
SpecOrder == << "Connect", "Arm", "SetParameters", "CoolTECs", "TurnOnLaser",
                "ConnectDetector", "InitializeDetector" >>

\* C1: in every startup the stages entered so far are an initial piece of
\* Connect, Arm, SetParameters, CoolTECs, TurnOnLaser, ConnectDetector,
\* InitializeDetector (so none is entered early, late or twice), a stage body
\* runs only while no stage has raised a fault, and a startup that returns
\* normally has entered all seven.
C1_StageOrder ==
    InStartup =>
        /\ Len(entered) <= Len(SpecOrder)
        /\ \A i \in 1..Len(entered) : entered[i] = SpecOrder[i]
        /\ pc \in BodyPcs =>
              /\ entered # << >> /\ stage = entered[Len(entered)]
              /\ pc = EntryPc[stage] \/ pc \in { "arm_poll", "params_poll",
                                                 "cool_poll", "on_loop", "on_poll" }
              /\ stageExc = "none" /\ exc = "none"
        /\ (pc = "idle" /\ result = "ok") => entered = SpecOrder

C1_Witness == Returned /\ result = "ok" /\ entered = SpecOrder

\* C2: when a stage of startup has raised a fault, no stage body runs any more,
\* the failing stage is the last one entered, and when startup has returned to
\* the caller turn_off_laser has been invoked exactly once in that startup.
C2_ShutdownOnce ==
    (InStartup /\ stageExc # "none") =>
        /\ pc \in { "except", "idle" }
        /\ stage = entered[Len(entered)]
        /\ pc = "except" => shutdowns = 0
        /\ pc = "idle" => shutdowns = 1 /\ result # "ok"

C2_Witness ==
    /\ Returned /\ stage = "TurnOnLaser" /\ stageExc = "Laser_Exception"
    /\ fails = laser_on_attempts /\ shutdowns = 1

\* the fault each stage announces (lines 140-142, 168, 191, 211, 290, 309)
FaultOf == [ Connect |-> "SDK_Exception", Arm |-> "Laser_Exception",
             SetParameters |-> "QCL_Exception", CoolTECs |-> "Laser_Exception",
             TurnOnLaser |-> "Laser_Exception", ConnectDetector |-> "RuntimeError",
             InitializeDetector |-> "RuntimeError" ]

\* C3: when a stage of startup has raised a fault, startup does not return
\* normally, the fault that reaches the caller is the fault the stage raised,
\* and a fault the driver raises itself is of the stage's kind (SDK_Exception
\* from Connect, Laser_Exception from Arm, CoolTECs and TurnOnLaser,
\* QCL_Exception from SetParameters).
C3_OriginalFault ==
    (Returned /\ stageExc # "none") =>
        /\ result # "ok"
        /\ result = stageExc
        /\ stageExc \notin { "OSError", "RuntimeError" } => stageExc = FaultOf[stage]

\* C4: no polled stage is still polling once its timeout test has found the
\* elapsed time past the stage's timeout (the stage has raised instead), the
\* turn-on stage never starts more than laser_on_attempts attempts, and a
\* startup ended by such a timeout has invoked turn_off_laser exactly once.
C4_TimeoutRaises ==
    /\ pc = "arm_poll" => elapsed <= arm_laser_timeout
    /\ pc = "params_poll" => elapsed <= qcl_set_params_timeout + PollSleep
    /\ pc = "cool_poll" => elapsed <= cool_tecs_timeout
    /\ pc = "on_poll" => /\ elapsed <= turn_on_laser_timeout
                         /\ attempts <= laser_on_attempts
    /\ (Returned /\ timedOut /\ stageExc # "none") => shutdowns = 1

\* C5: laser_on goes from false to true only in a step of the turn-on stage
\* in which isLaserFiring has just been read as true and the attempt's elapsed
\* time has not passed turn_on_laser_timeout.
C5_LaserOnConfirmed ==
    [][ (~laser_on /\ laser_on') =>
            /\ stage = "TurnOnLaser" /\ pc \in { "on_loop", "on_poll" }
            /\ flag' /\ confirmed'
            /\ ~Expired(elapsed', turn_on_laser_timeout) ]_vars

C5_Witness == laser_on /\ stage = "TurnOnLaser" /\ pc = "on_loop" /\ fails = 1

C7_ReleasedOnce ==
    InStartup => /\ reuse = {}
                 /\ \A h \in Handles : released[h] <= 1

\* C8: turn_off_laser called right after a turn_off_laser that disconnected
\* self.handle returns normally, issues no command on that handle and does not
\* disconnect it again.
C8_SecondShutdownInert ==
    [][ (caller = "turn_off_laser" /\ result = "ok" /\ Stale /\ CallTurnOff) =>
            /\ result' = "ok"
            /\ reuse' = {}
            /\ released' = released ]_vars

\* C9: whatever turn_off_laser does in the except clause of startup after a
\* stage has raised, the fault that leaves startup is the fault of that stage.
C9_ShutdownFaultSwallowed ==
    [][ (pc = "except" /\ stageExc # "none" /\ pc' = "idle") =>
            result' = stageExc ]_vars

C11_ExhaustionRaises ==
    /\ (stage = "TurnOnLaser" /\ pc = "on_loop" /\ laser_on) => ~MoreAttempts
    /\ (InStartup /\ fails = laser_on_attempts) =>
          /\ Len(entered) <= StageIndex("TurnOnLaser")
          /\ pc = "idle" => result # "ok"
          /\ pc \in { "except", "idle" } => stageExc = "Laser_Exception"

\* C12: in a startup a QCL parameter write has been issued only after the
\* hardware reported armed, an emission-on command only after it reported the
\* temperature stable, and a detector operation (connect or configuration)
\* only after it reported emission; the bodies of those stages are not even
\* entered before.
C12_OrderingDependencies ==
    InStartup =>
        /\ ("paramWrite" \in ops \/ pc \in { "params", "params_poll" })
              => "armed" \in reported
        /\ ("emissionOn" \in ops \/ onCmds > 0 \/ pc \in { "turn_on", "on_poll" })
              => "temp" \in reported
        /\ ("detector" \in ops \/ pc \in { "lockin_connect", "lockin_init" })
              => "emission" \in reported

C12_Witness ==
    /\ Returned /\ result = "ok"
    /\ ops = { "paramWrite", "emissionOn", "detector" }
    /\ reported = { "armed", "temp", "emission" }
    /\ fails > 0
\* C13: when the SetParameters stage has returned and startup is about to
\* run the cooling stage, the last thing the stage did was a read of the
\* controller's parameter set, taken after the write, whose pulse rate, pulse
\* width, current and temperature all equalled the commanded values.
C13_FreshReadConverged ==
    (InStartup /\ stage = "CoolTECs" /\ pc = "cool") =>
        /\ "paramWrite" \in ops
        /\ confirmed

IsSetting(c) == c.op \in { "setInt", "setDouble" }
UnknownFamily == devtype \in DevTypes /\ FamiliesIn[devtype] = {}

\* C18: when the device type answered to initialize_lockin is of none of the
\* families UHF, HF2 and MF, the stage writes no setting besides the quiesce
\* barrier that precedes the family test (no input-channel, demodulator,
\* oscillator or trigger setting) and startup does not return normally.
C18_UnknownFamilyFailsFast ==
    (InStartup /\ UnknownFamily) =>
        /\ \A i \in 1..Len(daqLog) :
              IsSetting(daqLog[i]) => daqLog[i] \in Range(Quiesce)
        /\ ~(pc = "idle" /\ result = "ok")

\* C19: in initialize_lockin every setting outside the quiesce barrier is
\* written after all three barrier settings (demodulator rates zero, triggers
\* off, outputs off); the sync call directly follows the clearing of all
\* subscriptions and only the settle delay follows it; and a stage that
\* returned normally ended with exactly these three calls.
C19_QuiesceFirstSyncLast ==
    /\ \A i \in 1..Len(daqLog) :
          /\ (IsSetting(daqLog[i]) /\ daqLog[i] \notin Range(Quiesce)) =>
                \A q \in Range(Quiesce) : \E j \in 1..(i - 1) : daqLog[j] = q
          /\ daqLog[i].op = "sync" =>
                /\ i > 1 /\ daqLog[i - 1] = Call("unsubscribe", "*", "")
                /\ \A j \in (i + 1)..Len(daqLog) : daqLog[j].op = "sleep"
          /\ daqLog[i].op = "sleep" => (i > 1 /\ daqLog[i - 1].op = "sync")
    /\ (Returned /\ result = "ok") =>
          /\ Len(daqLog) > Len(Closing)
          /\ SubSeq(daqLog, Len(daqLog) - Len(Closing) + 1, Len(daqLog)) = Closing
          /\ \E i \in 1..Len(daqLog) : IsSetting(daqLog[i]) /\
                                       daqLog[i] \notin Range(Quiesce)

C19_Witness ==
    /\ Returned /\ result = "ok" /\ devtype = "UHFLI"
    /\ Call("setInt", "demods/*/oscselect", "0.0") \in Range(daqLog)
\* a step that is one collection cycle in which daq.poll returned a response
CycleWithResponse == cycles' = cycles + 1 /\ shape' > 0
\* the sample node of the subscribed channel in poll response i
SampleOf(i) == PollResponses[i][Device].demods[lockin_demod_c].sample
HasNode(i) == /\ Device \in DOMAIN PollResponses[i]
              /\ "demods" \in DOMAIN PollResponses[i][Device]
              /\ lockin_demod_c \in DOMAIN PollResponses[i][Device].demods
              /\ "sample" \in
                    DOMAIN PollResponses[i][Device].demods[lockin_demod_c]

\* C15: a collection cycle whose poll response lacks the sample node of the
\* subscribed channel (no device, no 'demods', no channel or no 'sample'), and
\* in which no call of the data server raises, returns normally and appends an
\* empty sequence to data_list and an empty sequence to time_list.
C15_MissingNodeAppendsEmpty ==
    [][ (CycleWithResponse /\ raisedAt' = "none" /\ ~HasNode(shape')) =>
            /\ result' = "ok"
            /\ data_list' = Append(data_list, << >>)
            /\ time_list' = Append(time_list, << >>) ]_vars

\* C16: after a collection cycle that subscribed and got a poll response, no
\* subscription is active, whether the response carried data, carried none or
\* an error was raised while it was handled (the unsubscribe call itself
\* raising excepted).
C16_UnsubscribedBetweenCycles ==
    (caller = "_collect_data" /\ shape > 0 /\ raisedAt # "unsubscribe") =>
        ~subscribed

\* C17: every collection cycle leaves data_list and time_list of equal
\* length, a cycle that returns normally has added exactly one entry to each,
\* and a cycle whose response yields no samples has added one empty entry to
\* both.
C17_EqualLength ==
    [][ (cycles' = cycles + 1) =>
            /\ Len(data_list') = Len(time_list')
            /\ result' = "ok" => /\ Len(data_list') = Len(data_list) + 1
                                 /\ Len(time_list') = Len(time_list) + 1
            /\ (shape' > 0 /\ raisedAt' = "none" /\ ~HasNode(shape')) =>
                  /\ Len(data_list') = Len(data_list) + 1
                  /\ data_list'[Len(data_list')] = << >>
                  /\ time_list'[Len(time_list')] = << >> ]_vars

\* C20: a collection cycle whose poll response carries the sample node with
\* the data-loss flag set, and in which no call of the data server raises,
\* returns normally, has written one warning, leaves no subscription active
\* and has appended one magnitude per sample (its square is x^2 + y^2) and
\* one time per sample (timestamp over clock base).
C20_DataLossIsWarning ==
    [][ ( /\ CycleWithResponse /\ raisedAt' = "none" /\ HasNode(shape')
          /\ SampleOf(shape').time.dataloss )
        => LET n == SampleOf(shape')
               d == data_list'[Len(data_list')]
               t == time_list'[Len(time_list')]
           IN /\ result' = "ok"
              /\ warnings' = Sat(warnings + 1)
              /\ ~subscribed'
              /\ Len(data_list') = Len(data_list) + 1
              /\ Len(time_list') = Len(time_list) + 1
              /\ Len(d) = Len(n.x) /\ Len(t) = Len(n.timestamp)
              /\ \A k \in 1..Len(d) : d[k] * d[k] = n.x[k] * n.x[k] + n.y[k] * n.y[k]
              /\ \E cb \in ClockBases :
                    \A k \in 1..Len(t) : t[k] * cb = n.timestamp[k] ]_vars

C20_Witness ==
    /\ caller = "_collect_data" /\ result = "ok" /\ warnings = 1
    /\ shape > 0 /\ HasNode(shape) /\ SampleOf(shape).time.dataloss
    /\ data_list = << << 13 >> >> /\ time_list = << << 15 >> >>
\* C21: once a startup has written the QCL parameters, the pulse rate, pulse
\* width and current written to the controller are the pulserate, pulsewid and
\* current passed to that startup (startup keeps them in qcl_pulse_rate_hz,
\* qcl_pulse_width_ns and qcl_current_ma_ma).
C21_WritesCallerValues ==
    (InStartup /\ "paramWrite" \in ops) =>
        /\ written.current = qcl_current_ma_ma
        /\ written.width = qcl_pulse_width_ns
        /\ written.rate = qcl_pulse_rate_hz
\* C22: in a startup that has gone past the turn-on stage (turn_on_laser has
\* returned normally) laser_on is true.
C22_ReturnedMeansOn ==
    (InStartup /\ Len(entered) > StageIndex("TurnOnLaser")) => laser_on

\* C23: when arm_laser or cool_tecs has raised its timeout fault, the status
\* read last by that stage reported the condition as not confirmed.
C23_TimeoutOnlyUnconfirmed ==
    (InStartup /\ stage \in { "Arm", "CoolTECs" }
               /\ stageExc = "Laser_Exception") => ~confirmed

\* C24: once turn_off_laser has run to its end (called by the caller, or by
\* the except clause of startup) laser_on is false, and a startup whose
\* turn-on stage has raised Laser_Exception has issued at least one
\* emission-on command in that stage.
C24_ShutdownResetsLaserOn ==
    /\ (caller = "turn_off_laser" /\ pc = "idle" /\ result = "ok") => ~laser_on
    /\ (Returned /\ shutdowns > 0 /\ result = stageExc) => ~laser_on
    /\ (InStartup /\ stage = "TurnOnLaser" /\ stageExc = "Laser_Exception")
          => onCmds > 0
==========================================================================
